---------------------------- MODULE Spec2Model ----------------------------
(***************************************************************************)
(* A model of konsave's manifest layer: the location token expansion of    *)
(* config.py / parse.py, the manifest (de)serialisation of config.py, the  *)
(* content stripping of funcs.py and the save_profile command of funcs.py. *)
(*                                                                         *)
(* Text is modelled as a sequence of atoms.  An atom is a one-character    *)
(* string ("/", " ", "$", "{", "}", "=", "'", "[", "]", a letter) or an     *)
(* identifier of the program written as one atom ("HOME", "ENDS_WITH").    *)
(* Python's str operations (in, find, replace, startswith, endswith,       *)
(* slicing) and the two regular expressions are computed on these          *)
(* sequences as Python computes them on characters.                        *)
(***************************************************************************)
EXTENDS Integers, Sequences, FiniteSets, TLC

(***************************************************************************)
(* Bounds of the model.                                                    *)
(***************************************************************************)
\* pieces a raw location is concatenated from
MaxPieces == 4
\* lines of a stripped file
MaxLines == 4
\* entries of the save section walked by save_profile
MaxEntries == 3
\* serialisations of one manifest in a row (to_dict, parse, to_dict, ...)
MaxDumps == 2
\* strip_content runs on one file in a row
MaxRuns == 2
\* entries of the save section
MaxWork == 3

(***************************************************************************)
(* str helpers                                                             *)
(***************************************************************************)
RECURSIVE Concat(_)
\* "".join(seq of strings)
Concat(ss) == IF ss = <<>> THEN <<>> ELSE Head(ss) \o Concat(Tail(ss))

\* s[i:] with a 1-based first index
From(s, i) == SubSeq(s, i, Len(s))

\* whether sub occurs in s at (1-based) index i
OccursAt(s, sub, i) ==
    /\ i >= 1
    /\ i + Len(sub) - 1 <= Len(s)
    /\ SubSeq(s, i, i + Len(sub) - 1) = sub

Max(S) == CHOOSE m \in S : \A n \in S : n <= m

Min(S) == CHOOSE m \in S : \A n \in S : m <= n

\* the least index of a set of indices, 0 when there is none
FirstIndex(hits) == IF hits = {} THEN 0 ELSE Min(hits)

\* s.find(sub) as a 1-based index, 0 for Python's -1
Find(s, sub) == FirstIndex({i \in 1..(Len(s) + 1) : OccursAt(s, sub, i)})

\* sub in s
Contains(s, sub) == Find(s, sub) # 0

StartsWith(s, pre) == OccursAt(s, pre, 1)

EndsWith(s, suf) == OccursAt(s, suf, Len(s) - Len(suf) + 1)

\* s with the len characters at index i replaced by new, s when i is 0
Spliced(s, i, len, new) ==
    IF i = 0 THEN s ELSE SubSeq(s, 1, i - 1) \o new \o From(s, i + len)

\* s.replace(old, new, 1): only the first occurrence
ReplaceFirstOnly(s, old, new) == Spliced(s, Find(s, old), Len(old), new)

RECURSIVE Replace(_, _, _)
RECURSIVE ReplaceAt(_, _, _, _)
\* s.replace(old, new): every non-overlapping occurrence, left to right
\* (old is never empty where the program calls it)
Replace(s, old, new) == ReplaceAt(s, old, new, Find(s, old))

\* the occurrence at index i replaced, and the text after it searched on
ReplaceAt(s, old, new, i) ==
    IF i = 0 THEN s
    ELSE SubSeq(s, 1, i - 1) \o new \o Replace(From(s, i + Len(old)), old, new)

(***************************************************************************)
(* pathlib.Path, as far as config.py uses it: construction from a str (or  *)
(* from a Path), str() and .name.  A Path is represented by its str().     *)
(***************************************************************************)
RECURSIVE Split(_)
RECURSIVE SplitAt(_, _)
\* s.split("/")
Split(s) == SplitAt(s, Find(s, <<"/">>))

\* the split at the separator at index i
SplitAt(s, i) ==
    IF i = 0 THEN <<s>>
    ELSE <<SubSeq(s, 1, i - 1)>> \o Split(From(s, i + 1))

\* the parts of a path after its root: empty and "." components are dropped
Parts(s) == SelectSeq(Split(s), LAMBDA c : c # <<>> /\ c # <<".">>)

\* POSIX keeps exactly two leading slashes, and folds any other number to one
Root(s) ==
    IF StartsWith(s, <<"/", "/">>) /\ ~StartsWith(s, <<"/", "/", "/">>)
    THEN <<"/", "/">>
    ELSE IF StartsWith(s, <<"/">>) THEN <<"/">> ELSE <<>>

RECURSIVE JoinWith(_, _)
\* sep.join(seq of strings)
JoinWith(sep, ss) ==
    IF ss = <<>> THEN <<>>
    ELSE IF Len(ss) = 1 THEN ss[1]
    ELSE ss[1] \o sep \o JoinWith(sep, Tail(ss))

\* a path's str() from its root and parts
PathText(root, parts) ==
    IF root = <<>> /\ parts = <<>> THEN <<".">>
    ELSE root \o JoinWith(<<"/">>, parts)

\* str(Path(s))
Path(s) == PathText(Root(s), Parts(s))

\* the last of the parts, "" when there is none
LastPart(parts) == IF parts = <<>> THEN <<>> ELSE parts[Len(parts)]

\* Path(s).name
PathName(s) == LastPart(Parts(s))

(***************************************************************************)
(* parse.py: the token table                                               *)
(***************************************************************************)
TOKEN_SYMBOL == <<"$">>

\* consts.py: Path.home(), the home directory of the user who runs the
\* program, as text
VARIABLE home

\* consts.py: the directories, each a pathlib.Path (not a str)
HOME == [type |-> "Path", text |-> home]
CONFIG_DIR == [type |-> "Path", text |-> HOME.text \o <<"/", ".config">>]
SHARE_DIR == [type |-> "Path", text |-> HOME.text \o <<"/", ".local", "/", "share">>]
BIN_DIR == [type |-> "Path", text |-> HOME.text \o <<"/", ".local", "/", "bin">>]

\* tokens["keywords"]["dict"], in insertion order
KeywordTable ==
    << [key |-> <<"HOME">>, value |-> HOME],
       [key |-> <<"CONFIG_DIR">>, value |-> CONFIG_DIR],
       [key |-> <<"SHARE_DIR">>, value |-> SHARE_DIR],
       [key |-> <<"BIN_DIR">>, value |-> BIN_DIR] >>

\* the keys of tokens["functions"]["dict"]
FunctionNames == {<<"ENDS_WITH">>, <<"BEGINS_WITH">>}

\* atoms of the class \w (identifiers are one atom each)
WordAtoms ==
    {"HOME", "CONFIG_DIR", "SHARE_DIR", "BIN_DIR", "ENDS_WITH", "BEGINS_WITH",
     "FOO", "a", "b", "d", "h", "x", "y", "share", "bin"}

\* atoms of the class \s
SpaceAtoms == {" "}

\* (?:\"|')
QuoteAtoms == {"'", "\""}

(***************************************************************************)
(* The function-token regular expression                                   *)
(*     \$\{(\w+)\=(?:\"|')(\S+)(?:\"|')\}                                   *)
(* raw_regex and grouped_regex differ only in the groups.                  *)
(***************************************************************************)
\* the index after the run of \w atoms that starts at i
RECURSIVE WordEnd(_, _)
WordEnd(s, i) ==
    IF i <= Len(s) /\ s[i] \in WordAtoms THEN WordEnd(s, i + 1) ELSE i

\* the index after the run of \S atoms that starts at i
RECURSIVE NonSpaceEnd(_, _)
NonSpaceEnd(s, i) ==
    IF i <= Len(s) /\ s[i] \notin SpaceAtoms THEN NonSpaceEnd(s, i + 1) ELSE i

\* the ends e of the matches that start at i with the function name ending
\* before j: "=", a quote, at least one \S, a quote, "}"
MatchEndsAfter(s, i, j) ==
    IF ~(/\ j > i + 2
         /\ j + 1 <= Len(s)
         /\ s[j] = "="
         /\ s[j + 1] \in QuoteAtoms)
    THEN {}
    ELSE {e \in (j + 4)..Len(s) :
            /\ s[e] = "}"
            /\ s[e - 1] \in QuoteAtoms
            /\ e - 2 < NonSpaceEnd(s, j + 2)}

\* the ends e of the matches that start at i
MatchEnds(s, i) ==
    IF ~OccursAt(s, <<"$", "{">>, i) THEN {} ELSE MatchEndsAfter(s, i, WordEnd(s, i + 2))

NoMatch == [found |-> FALSE]

\* a match from i to e whose function name ends before j: its text, group 1
\* and group 2
MatchRecord(s, i, j, e) ==
    [found |-> TRUE, start |-> i, end |-> e,
     text |-> SubSeq(s, i, e),
     func |-> SubSeq(s, i + 2, j - 1),
     arg |-> SubSeq(s, j + 2, e - 2)]

\* the match that starts at i: \S+ is greedy, so it is the longest
MatchAt(s, i) == MatchRecord(s, i, WordEnd(s, i + 2), Max(MatchEnds(s, i)))

\* the match at the least of the start indices, None when there is none
LeftmostMatch(s, starts) == IF starts = {} THEN NoMatch ELSE MatchAt(s, Min(starts))

\* re.search(grouped_regex, s): the leftmost match
Search(s) == LeftmostMatch(s, {i \in 1..Len(s) : MatchEnds(s, i) # {}})

RECURSIVE FindAll(_)
RECURSIVE FindAllAfter(_, _)
\* re.findall(raw_regex, s): the texts of the non-overlapping matches, left
\* to right
FindAll(s) == FindAllAfter(s, Search(s))

\* the first match m, and the matches after it
FindAllAfter(s, m) ==
    IF ~m.found THEN <<>> ELSE <<m.text>> \o FindAll(From(s, m.end + 1))

(***************************************************************************)
(* The directory listings the function tokens consult.  A file system is   *)
(* a function from the directories that exist to their listing, a sequence *)
(* in the order os.listdir returns it.                                     *)
(***************************************************************************)
\* os.listdir(path)
ListDir(fsys, path) ==
    IF path \in DOMAIN fsys
    THEN [err |-> "none", value |-> fsys[path]]
    ELSE [err |-> "FileNotFoundError", value |-> <<>>]

\* directory.endswith(text) or directory.startswith(text)
StrTest(method, directory, text) ==
    IF method = "endswith" THEN EndsWith(directory, text) ELSE StartsWith(directory, text)

\* the entry at the least of the indices, none when there is none
EntryAtFirst(dirs, hits) == IF hits = {} THEN <<>> ELSE <<dirs[Min(hits)]>>

\* the first entry of dirs that passes the test, as the for loop finds it
FirstEntry(dirs, method, text) ==
    EntryAtFirst(dirs, {k \in 1..Len(dirs) : StrTest(method, dirs[k], text)})

\* the return of the resolver: the path with the occurrence replaced by the
\* entry found, or only the occurrence when none was found
Resolved(path, occurence, hit) ==
    IF hit # <<>>
    THEN [err |-> "none", value |-> Replace(path, occurence, hit[1])]
    ELSE [err |-> "none", value |-> occurence]

\* the resolver from the listing on
ResolveListed(path, occurence, listed, method, ends_with_text) ==
    IF listed.err # "none" THEN [err |-> listed.err, value |-> <<>>]
    ELSE Resolved(path, occurence, FirstEntry(listed.value, method, ends_with_text))

\* the resolver from the first match m of the regex in path on
ResolveMatch(fsys, path, method, m) ==
    IF ~m.found
    THEN \* re.search(...) is None: None.group()
         [err |-> "AttributeError", value |-> <<>>]
    ELSE ResolveListed(path, m.text,
                       ListDir(fsys, SubSeq(path, 1, Find(path, m.text) - 1)),
                       method, Search(m.text).arg)

\* the body ends_with and begins_with share: they differ in the str method
\* applied to each directory entry
Resolver(fsys, path, method) == ResolveMatch(fsys, path, method, Search(path))

ends_with(fsys, path) == Resolver(fsys, path, "endswith")

begins_with(fsys, path) == Resolver(fsys, path, "startswith")

\* tokens["functions"]["dict"][func](grouped_regex, path)
CallFunction(func, fsys, path) ==
    IF func = <<"ENDS_WITH">> THEN ends_with(fsys, path) ELSE begins_with(fsys, path)

(***************************************************************************)
(* config.py: ConfEntry.parse_keywords and ConfEntry.parse_functions       *)
(***************************************************************************)
\* str.replace(old, new) with new an object of the given type: Python
\* raises TypeError unless new is a str
StrReplace(s, old, new) ==
    IF new.type = "str"
    THEN [err |-> "none", value |-> Replace(s, old, new.text)]
    ELSE [err |-> "TypeError", value |-> s]

\* TOKEN_SYMBOL + key, for table entry k
Word(k) == TOKEN_SYMBOL \o KeywordTable[k].key

RECURSIVE KeywordsFrom(_, _)
RECURSIVE KeywordReplaced(_, _, _)
\* the loop of parse_keywords from table entry k on
KeywordsFrom(loc, k) ==
    IF k > Len(KeywordTable) THEN [err |-> "none", value |-> loc]
    ELSE IF Contains(PathName(loc), Word(k))
    THEN KeywordReplaced(StrReplace(PathName(loc), Word(k), KeywordTable[k].value), loc, k)
    ELSE KeywordsFrom(loc, k + 1)

\* the loop after the replace call of entry k returned or raised r
KeywordReplaced(r, loc, k) ==
    IF r.err # "none" THEN [err |-> r.err, value |-> loc]
    ELSE KeywordsFrom(Path(r.value), k + 1)

parse_keywords(loc) == KeywordsFrom(loc, 1)

\* re.search(grouped_regex, match).group(1)
FuncOf(match) == Search(match).func

\* self.location after the function returned or raised r
Relocated(r, loc) ==
    IF r.err # "none" THEN [err |-> r.err, value |-> loc]
    ELSE [err |-> "none", value |-> Path(r.value)]

\* one iteration of the for loop of parse_functions, for one match text
FunctionStep(fsys, loc, match) ==
    IF FuncOf(match) \in FunctionNames
    THEN Relocated(CallFunction(FuncOf(match), fsys, PathName(loc)), loc)
    ELSE [err |-> "none", value |-> loc]

RECURSIVE FunctionsFrom(_, _, _, _)
RECURSIVE FunctionsAfter(_, _, _, _)
\* the for loop of parse_functions from match k on
FunctionsFrom(fsys, loc, ms, k) ==
    IF k > Len(ms) THEN [err |-> "none", value |-> loc]
    ELSE FunctionsAfter(FunctionStep(fsys, loc, ms[k]), fsys, ms, k)

\* the loop after iteration k returned or raised r
FunctionsAfter(r, fsys, ms, k) ==
    IF r.err # "none" THEN r ELSE FunctionsFrom(fsys, r.value, ms, k + 1)

parse_functions(fsys, loc) == FunctionsFrom(fsys, loc, FindAll(PathName(loc)), 1)

\* parse_functions after parse_keywords returned or raised r
ExpandAfter(r, fsys) == IF r.err # "none" THEN r ELSE parse_functions(fsys, r.value)

\* ConfEntry.__post_init__ on a location: both passes, in order
Expand(fsys, loc) == ExpandAfter(parse_keywords(loc), fsys)

(***************************************************************************)
(* The tree yaml.safe_load returns, as tagged values: null, a str, a       *)
(* pathlib.Path (to_dict puts one in the tree), a list, a dict.            *)
(***************************************************************************)
Null == [t |-> "null", v |-> <<>>]
Str(s) == [t |-> "str", v |-> s]
PathObj(s) == [t |-> "path", v |-> s]
List(xs) == [t |-> "list", v |-> xs]
Dict(f) == [t |-> "dict", v |-> f]

Ok(x) == [err |-> "none", value |-> x]
Raise(e) == [err |-> e, value |-> <<>>]

RECURSIVE convert_none_to_empty_list(_)
\* Config.__init__: every None of the tree becomes [], recursively
convert_none_to_empty_list(x) ==
    IF x.t = "list"
    THEN List([i \in DOMAIN x.v |-> convert_none_to_empty_list(x.v[i])])
    ELSE IF x.t = "dict"
    THEN Dict([k \in DOMAIN x.v |-> convert_none_to_empty_list(x.v[k])])
    ELSE IF x.t = "null" THEN List(<<>>)
    ELSE x

\* the comprehension's result, given the keys whose item raised
Comprehended(r, failing) ==
    IF failing # {}
    THEN Raise(r[CHOOSE k \in failing : TRUE].err)
    ELSE Ok([k \in DOMAIN r |-> r[k].value])

\* a dict comprehension {k: r[k]}: it raises what the first failing item
\* raises (the item order of a dict is not modelled: any failing item)
Comprehend(r) == Comprehended(r, {k \in DOMAIN r : r[k].err # "none"})

\* StripEntry.from_dict: data["groups"] and data["keys"]
StripEntry_from_dict(x) ==
    IF x.t # "dict" THEN Raise("TypeError")
    ELSE IF "groups" \notin DOMAIN x.v \/ "keys" \notin DOMAIN x.v THEN Raise("KeyError")
    ELSE Ok([groups |-> x.v["groups"], keys |-> x.v["keys"]])

\* StripEntry.to_dict
StripEntry_to_dict(s) == Dict([k \in {"groups", "keys"} |-> IF k = "groups" THEN s.groups ELSE s.keys])

\* ConfEntry.from_dict: the strips built from data["strip"].  Only a dict
\* has keys to test "strip" against; the other trees the loader passes here
\* are the [] of a null entry.
StripsOf(d) ==
    IF ~(d.t = "dict" /\ "strip" \in DOMAIN d.v) THEN Ok(<<>>)
    ELSE IF d.v["strip"].t # "dict" THEN Raise("AttributeError")
    ELSE Comprehend([k \in DOMAIN d.v["strip"].v |->
                        StripEntry_from_dict(d.v["strip"].v[k])])

\* the ConfEntry the constructor returns once __post_init__ has expanded
\* the location, or what the expansion raised
Constructed(expanded, original, entries, strips) ==
    IF expanded.err # "none" THEN Raise(expanded.err)
    ELSE Ok([location |-> expanded.value,
             localtion_original |-> original,
             entries |-> entries,
             strips |-> strips])

\* ConfEntry.from_dict after the strips: cls(location=Path(data["location"]),
\* entries=data["entries"], strips=subs), with the __post_init__ it runs
ConfEntryWith(fsys, d, subs) ==
    IF subs.err # "none" THEN subs
    ELSE IF d.t # "dict" THEN Raise("TypeError")
    ELSE IF "location" \notin DOMAIN d.v THEN Raise("KeyError")
    ELSE IF d.v["location"].t \notin {"str", "path"} THEN Raise("TypeError")
    ELSE IF "entries" \notin DOMAIN d.v THEN Raise("KeyError")
    ELSE Constructed(Expand(fsys, Path(d.v["location"].v)),
                     Path(d.v["location"].v), d.v["entries"], subs.value)

\* ConfEntry.from_dict
ConfEntry_from_dict(fsys, d) == ConfEntryWith(fsys, d, StripsOf(d))

\* ConfEntry.to_dict: the original location (a Path), the entries, and the
\* strips unless there are none
ConfEntry_to_dict(e) ==
    LET base == [k \in {"location", "entries"} |->
                    IF k = "location" THEN PathObj(e.localtion_original) ELSE e.entries]
        strips == [k \in DOMAIN e.strips |-> StripEntry_to_dict(e.strips[k])]
    IN  IF DOMAIN e.strips = {} THEN Dict(base)
        ELSE Dict([k \in {"location", "entries", "strip"} |->
                      IF k = "strip" THEN Dict(strips) ELSE base[k]])

\* Section.from_dict
Section_from_dict(fsys, d) ==
    IF d.t # "dict" THEN Raise("AttributeError")
    ELSE Comprehend([k \in DOMAIN d.v |-> ConfEntry_from_dict(fsys, d.v[k])])

\* Section.to_dict
Section_to_dict(s) == Dict([k \in DOMAIN s |-> ConfEntry_to_dict(s[k])])

\* Config.__init__ from the converted tree on: self.sections
SectionsOf(fsys, d) ==
    IF d.t # "dict" THEN Raise("AttributeError")
    ELSE Comprehend([k \in DOMAIN d.v |-> Section_from_dict(fsys, d.v[k])])

\* Config.__init__ on the tree yaml.safe_load returned
Config_init(fsys, tree) == SectionsOf(fsys, convert_none_to_empty_list(tree))

\* Config.to_dict
Config_to_dict(ss) == Dict([k \in DOMAIN ss |-> Section_to_dict(ss[k])])

(***************************************************************************)
(* funcs.py: strip_content                                                 *)
(***************************************************************************)
\* placeholder = "# stripped by konsave", a line of its own
placeholder == <<"# stripped by konsave">>

\* file_path.read_text().splitlines() on a text given as text.split("\n"):
\* a last empty segment is the end of the last line, not a line
SplitLines(text) ==
    IF text # <<>> /\ text[Len(text)] = <<>> THEN SubSeq(text, 1, Len(text) - 1) ELSE text

\* "\n".join(lines), as text.split("\n")
JoinLines(lines) == IF lines = <<>> THEN << <<>> >> ELSE lines

\* f"[{group}]"
GroupHeader(group) == <<"[">> \o group \o <<"]">>

\* f"{key}="
KeyAssign(key) == key \o <<"=">>

\* re.compile(r"^\[.*\].*").match(line): the line starts with "[" and a "]"
\* follows
IsSectionStart(line) ==
    /\ line # <<>>
    /\ line[1] = "["
    /\ \E i \in 2..Len(line) : line[i] = "]"

\* file_content.index(line), 1-based; 0 where Python raises ValueError
Index(content, line) == FirstIndex({i \in 1..Len(content) : content[i] = line})

RECURSIVE BlankUntilSection(_, _)
\* for line in range(i, len(file_content)): the lines become the
\* placeholder until one starts a section
BlankUntilSection(content, i) ==
    IF i > Len(content) \/ IsSectionStart(content[i]) THEN content
    ELSE BlankUntilSection([content EXCEPT ![i] = placeholder], i + 1)

\* the body of the group_line loop for the header at group_idx
BlankGroupAt(content, group_idx) ==
    BlankUntilSection([content EXCEPT ![group_idx] = placeholder], group_idx)

RECURSIVE GroupLinesFrom(_, _, _)
RECURSIVE GroupLineAt(_, _, _, _)
\* for group_line in group_lines, from the k-th on
GroupLinesFrom(content, group_lines, k) ==
    IF k > Len(group_lines) THEN Ok(content)
    ELSE GroupLineAt(content, group_lines, k, Index(content, group_lines[k]))

\* the k-th group_line, found at group_idx, and the ones after it
GroupLineAt(content, group_lines, k, group_idx) ==
    IF group_idx = 0 THEN Raise("ValueError")
    ELSE GroupLinesFrom(BlankGroupAt(content, group_idx), group_lines, k + 1)

\* group_lines = [line for line in file_content if f"[{group}]" in line]
GroupLines(content, group) ==
    SelectSeq(content, LAMBDA line : Contains(line, GroupHeader(group)))

RECURSIVE strip_groups_from(_, _, _)
RECURSIVE strip_groups_after(_, _, _)
\* for group in groups, from the g-th on
strip_groups_from(content, groups, g) ==
    IF g > Len(groups) THEN Ok(content)
    ELSE strip_groups_after(
             GroupLinesFrom(content, GroupLines(content, groups[g]), 1),
             groups, g)

\* the loop after the g-th group returned or raised r
strip_groups_after(r, groups, g) ==
    IF r.err # "none" THEN r ELSE strip_groups_from(r.value, groups, g + 1)

\* strip_content.strip_groups
strip_groups(content, groups) == strip_groups_from(content, groups, 1)

RECURSIVE KeyLinesFrom(_, _, _)
RECURSIVE KeyLineAt(_, _, _, _)
\* for key_line in key_lines, from the k-th on
KeyLinesFrom(content, key_lines, k) ==
    IF k > Len(key_lines) THEN Ok(content)
    ELSE KeyLineAt(content, key_lines, k, Index(content, key_lines[k]))

\* the k-th key_line, found at key_idx, and the ones after it
KeyLineAt(content, key_lines, k, key_idx) ==
    IF key_idx = 0 THEN Raise("ValueError")
    ELSE KeyLinesFrom([content EXCEPT ![key_idx] = placeholder], key_lines, k + 1)

\* only the first line that holds the key is taken
KeyLinesFirstOnly(content, key) ==
    SubSeq(content, Min({i \in 1..Len(content) : Contains(content[i], KeyAssign(key))}
                        \cup {Len(content) + 1}),
           Min({i \in 1..Len(content) : Contains(content[i], KeyAssign(key))}
               \cup {Len(content)}))

\* key_lines = [line for line in file_content if f"{key}=" in line]
KeyLines(content, key) ==
    SelectSeq(content, LAMBDA line : Contains(line, KeyAssign(key)))

RECURSIVE strip_keys_from(_, _, _)
RECURSIVE strip_keys_after(_, _, _)
\* for key in keys, from the n-th on
strip_keys_from(content, keys, n) ==
    IF n > Len(keys) THEN Ok(content)
    ELSE strip_keys_after(
             KeyLinesFrom(content, KeyLines(content, keys[n]), 1),
             keys, n)

\* the loop after the n-th key returned or raised r
strip_keys_after(r, keys, n) ==
    IF r.err # "none" THEN r ELSE strip_keys_from(r.value, keys, n + 1)

\* strip_content.strip_keys
strip_keys(content, keys) == strip_keys_from(content, keys, 1)

\* the placeholder lines are emptied, not taken out
EmptiedPlaceholder(r) ==
    IF r.err # "none" THEN r
    ELSE Ok([i \in 1..Len(r.value) |->
                IF r.value[i] = placeholder THEN <<>> ELSE r.value[i]])

\* list(filter(lambda x: x != placeholder, file_content))
WithoutPlaceholder(r) ==
    IF r.err # "none" THEN r ELSE Ok(SelectSeq(r.value, LAMBDA x : x # placeholder))

\* strip_keys on what strip_groups returned or raised
KeysAfterGroups(r, keys) == IF r.err # "none" THEN r ELSE strip_keys(r.value, keys)

\* strip_content from the lines read to the lines joined and written
StripLines(lines, groups, keys) ==
    WithoutPlaceholder(KeysAfterGroups(strip_groups(lines, groups), keys))

\* strip_args.get(name, [])
Get(args, name) == IF name \in DOMAIN args THEN args[name] ELSE <<>>

(***************************************************************************)
(* funcs.py: exception_handler, copy, save_profile                         *)
(***************************************************************************)
\* a file under a source directory; shutil.copy on it returns or raises
File(ok) == [kind |-> "file", ok |-> ok, items |-> <<>>]

\* a directory with its os.listdir items in order; os.mkdir(dest) and
\* os.listdir(source) return or raise
Dir(ok, items) == [kind |-> "dir", ok |-> ok, items |-> items]

\* a source path that does not exist
Missing == [kind |-> "missing", ok |-> TRUE, items |-> <<>>]

\* what a copy has done so far: the paths copied, whether a step raised,
\* and what was done after a step had raised
Done(paths, raised, after) == [copied |-> paths, failed |-> raised, after |-> after]

\* shutil.copy returned for the file at path
Put(st, path) ==
    Done(st.copied \cup {path}, st.failed,
         IF st.failed THEN st.after \cup {[op |-> "copy", path |-> path]} ELSE st.after)

\* a step raised
Failed(st) == Done(st.copied, TRUE, st.after)

RECURSIVE CopyItems(_, _, _, _)
RECURSIVE copy(_, _, _)
\* for item in os.listdir(source), from the i-th on: a directory goes
\* through copy, which never raises; a file's shutil.copy may raise, which
\* leaves the loop
CopyItems(items, i, path, st) ==
    IF i > Len(items) THEN st
    ELSE IF items[i].kind = "dir"
         THEN CopyItems(items, i + 1, path, copy(items[i], Append(path, i), st))
    ELSE IF items[i].ok
         THEN CopyItems(items, i + 1, path, Put(st, Append(path, i)))
    ELSE Failed(st)

\* copy(source, dest) under exception_handler: whatever is raised inside is
\* logged and the call returns None
copy(source, path, st) ==
    IF ~source.ok THEN Failed(st) ELSE CopyItems(source.items, 1, path, st)

\* the entry's source copied into the profile: copy for a directory,
\* shutil.copy for a file; raised tells whether the exception reaches
\* save_profile
CopyEntry(entry, path, st) ==
    IF entry.source.kind = "dir"
    THEN [st |-> copy(entry.source, path, st), raised |-> FALSE]
    ELSE IF entry.source.ok
         THEN [st |-> Put(st, path), raised |-> FALSE]
    ELSE [st |-> Failed(st), raised |-> TRUE]

\* strip_content(Path(dest), strip[entry]) raises: read_text on a directory,
\* or strip_groups on the file's lines
StripRaises(entry) == entry.source.kind = "dir" \/ entry.strip_raises

(***************************************************************************)
(* State                                                                   *)
(***************************************************************************)
VARIABLES
    \* construction of one ConfEntry (config.py, ConfEntry.__post_init__)
    raw,                 \* the location as the manifest declares it
    fs,                  \* the file system the function tokens list
    location,            \* self.location, as str(Path)
    localtion_original,  \* self.localtion_original, as str(Path)
    matches,             \* parse_functions: the list findall returned
    mi,                  \* parse_functions: index of the next match
    scanned,             \* parse_functions: the name findall scanned
    stepped,             \* parse_functions: self.location before each iteration run so far
    epc,                 \* position: idle, new, functions, done, raised
    eerr,                \* the exception raised, "none" when none
    \* loading and serialising a manifest (config.py, Config)
    data,                \* the tree yaml.safe_load returned for the manifest
    tree,                \* the tree the next Config is constructed from
    sections,            \* Config.sections of the latest Config
    dumped,              \* the trees to_dict has returned so far
    cpc,                 \* position: idle, tree, loaded, raised
    cerr,                \* the exception raised, "none" when none
    \* stripping a file (funcs.py, strip_content)
    file_text,           \* the file's text, as text.split("\n")
    strip_args,          \* the strip spec: groups and keys
    given,               \* the lines each run read from the file
    after_groups,        \* file_content after strip_groups, in each run
    returned,            \* the lines each run kept, before they are joined
    spc,                 \* position: idle, ready, raised
    serr,                \* the exception raised, "none" when none
    \* one save_profile invocation (funcs.py)
    config_read,         \* whether read_konsave_config returned the config, not None
    work,                \* the entries of the save section, in loop order
    vidx,                \* index of the next entry
    copied,              \* the files copied into the profile so far
    stripped,            \* the entries stripped so far
    failed,              \* whether a copy step has failed
    after_failure,       \* what the invocation did after a copy step failed
    manifest_copied,     \* whether conf.yaml was copied into the profile
    reported,            \* whether "Profile saved successfully!" was logged
    vpc                  \* position: idle, ready, entries, aborted, done

expandVars ==
    <<raw, location, localtion_original, matches, mi, scanned, stepped, epc, eerr>>

configVars == <<data, tree, sections, dumped, cpc, cerr>>

stripVars == <<file_text, strip_args, given, after_groups, returned, spc, serr>>

saveVars ==
    <<config_read, work, vidx, copied, stripped, failed, after_failure, manifest_copied, reported, vpc>>

vars == <<fs, home, expandVars, configVars, stripVars, saveVars>>

(***************************************************************************)
(* Inputs of the expansion                                                 *)
(***************************************************************************)
\* the home directories: an ordinary one, and one whose last component is
\* named like the marker of a keyword later in the table
HomeDirs == { <<"/", "h">>, <<"/", "h", "/", "$", "BIN_DIR">> }

\* ${func='arg'}
Token(func, arg) == <<"$", "{", func, "=", "'">> \o arg \o <<"'", "}">>

\* what a raw location is concatenated from
Pieces ==
    { <<"$", "HOME">>, <<"/">>, <<"d">>, <<" ">>,
      Token("ENDS_WITH", <<"x">>), Token("BEGINS_WITH", <<"x">>),
      Token("FOO", <<"x">>) }

RECURSIVE PieceSeqs(_)
\* the sequences of exactly n pieces
PieceSeqs(n) ==
    IF n = 0 THEN {<<>>}
    ELSE {<<p>> \o s : p \in Pieces, s \in PieceSeqs(n - 1)}

RawLocations == UNION {{Concat(s) : s \in PieceSeqs(n)} : n \in 0..MaxPieces}

\* names of directory entries
EntryAX == <<"a", "x">>
EntryXB == <<"x", "b">>

\* the directories a listing may exist for (relative to the working
\* directory, as the function pass lists them)
DirD == <<"d">>
DirDAX == <<"d", "a", "x", " ">>

DirDFOO == <<"d">> \o Token("FOO", <<"x">>) \o <<" ">>

FileSystems ==
    { <<>>,
      DirD :> <<>>,
      DirD :> <<EntryAX>>,
      DirD :> <<EntryXB>>,
      (DirD :> <<EntryAX>>) @@ (DirDAX :> <<EntryXB>>),
      (DirD :> <<EntryAX>>) @@ (DirDFOO :> <<EntryAX>>) }

(***************************************************************************)
(* Construction of a ConfEntry: __post_init__ keeps the original location  *)
(* and runs parse_keywords, then parse_functions.                          *)
(***************************************************************************)
ExpandIdle ==
    /\ raw = <<>>
    /\ location = <<>>
    /\ localtion_original = <<>>
    /\ matches = <<>>
    /\ mi = 0
    /\ scanned = <<>>
    /\ stepped = <<>>
    /\ epc = "idle"
    /\ eerr = "none"

ConfigIdle ==
    /\ data = Null
    /\ tree = Null
    /\ sections = <<>>
    /\ dumped = <<>>
    /\ cpc = "idle"
    /\ cerr = "none"

StripIdle ==
    /\ file_text = <<>>
    /\ strip_args = <<>>
    /\ given = <<>>
    /\ after_groups = <<>>
    /\ returned = <<>>
    /\ spc = "idle"
    /\ serr = "none"

SaveIdle ==
    /\ config_read = FALSE
    /\ work = <<>>
    /\ vidx = 0
    /\ copied = {}
    /\ stripped = {}
    /\ failed = FALSE
    /\ after_failure = {}
    /\ manifest_copied = FALSE
    /\ reported = FALSE
    /\ vpc = "idle"

\* ConfEntry(location=Path(raw), ...) up to the first pass
InitExpand ==
    /\ ConfigIdle /\ StripIdle /\ SaveIdle
    /\ fs \in FileSystems
    /\ home \in HomeDirs
    /\ raw \in RawLocations
    /\ location = Path(raw)
    /\ localtion_original = Path(raw)
    /\ matches = <<>>
    /\ mi = 0
    /\ scanned = <<>>
    /\ stepped = <<>>
    /\ epc = "new"
    /\ eerr = "none"

\* parse_keywords, and the findall that opens parse_functions
ParseKeywords ==
    /\ epc = "new"
    /\ \E r \in {parse_keywords(location)} :
           IF r.err # "none"
           THEN /\ epc' = "raised"
                /\ eerr' = r.err
                /\ UNCHANGED <<location, matches, mi, scanned>>
           ELSE /\ location' = r.value
                /\ scanned' = PathName(r.value)
                /\ matches' = FindAll(PathName(r.value))
                /\ mi' = 1
                /\ epc' = "functions"
                /\ UNCHANGED eerr
    /\ UNCHANGED <<raw, fs, home, localtion_original, stepped, configVars, stripVars, saveVars>>

\* one iteration of the for loop of parse_functions
ParseFunctionsStep ==
    /\ epc = "functions"
    /\ mi <= Len(matches)
    /\ \E r \in {FunctionStep(fs, location, matches[mi])} :
           IF r.err # "none"
           THEN /\ epc' = "raised"
                /\ eerr' = r.err
                /\ UNCHANGED <<location, mi>>
           ELSE /\ location' = r.value
                /\ mi' = mi + 1
                /\ UNCHANGED <<epc, eerr>>
    /\ stepped' = Append(stepped, location)
    /\ UNCHANGED <<raw, fs, home, localtion_original, matches, scanned, configVars, stripVars, saveVars>>

\* the for loop ends and __post_init__ returns
ParseFunctionsReturn ==
    /\ epc = "functions"
    /\ mi > Len(matches)
    /\ epc' = "done"
    /\ UNCHANGED <<raw, fs, home, location, localtion_original, matches, mi, scanned, stepped, eerr>>
    /\ UNCHANGED <<configVars, stripVars, saveVars>>

NextExpand == ParseKeywords \/ ParseFunctionsStep \/ ParseFunctionsReturn

SpecExpand == InitExpand /\ [][NextExpand]_vars

(***************************************************************************)
(* Claims about the expansion                                              *)
(***************************************************************************)
\* the keyword markers that occur in s
HasKeyword(s) ==
    \E k \in 1..Len(KeywordTable) : Contains(s, TOKEN_SYMBOL \o KeywordTable[k].key)

RECURSIVE SubstituteEvery(_, _)
\* s with every marker of each keyword from table entry k on substituted by
\* the keyword's literal value, in table order
SubstituteEvery(s, k) ==
    IF k > Len(KeywordTable) THEN s
    ELSE SubstituteEvery(
             Replace(s, TOKEN_SYMBOL \o KeywordTable[k].key, KeywordTable[k].value.text),
             k + 1)

RECURSIVE SubstituteFirst(_, _)
\* the same, the first marker of each keyword only
SubstituteFirst(s, k) ==
    IF k > Len(KeywordTable) THEN s
    ELSE SubstituteFirst(
             ReplaceFirstOnly(s, TOKEN_SYMBOL \o KeywordTable[k].key, KeywordTable[k].value.text),
             k + 1)

ExpandEnded == epc \in {"done", "raised"}

\* C1: a raw location with keyword markers and no function token, wherever
\* the markers are, resolves to the raw location with each marker
\* substituted by its keyword's value in table order, the other text
\* unchanged (the substitution read as every occurrence or as the first
\* one, the result compared as paths).
C1_KeywordsSubstituted ==
    (ExpandEnded /\ HasKeyword(raw) /\ ~Search(raw).found)
        => /\ epc = "done"
           /\ location \in {Path(SubstituteEvery(raw, 1)), Path(SubstituteFirst(raw, 1))}

\* the keywords whose marker s starts with
MarkersAt(s) == {k \in 1..Len(KeywordTable) : StartsWith(s, Word(k))}

RECURSIVE SubstituteOnce(_, _, _)
\* s read once from left to right, each marker found in s itself substituted
\* by its keyword's value and the value not read again; with first_only,
\* only the first marker of each keyword (used holds the keywords done)
SubstituteOnce(s, used, first_only) ==
    IF s = <<>> THEN <<>>
    ELSE IF MarkersAt(s) \ used = {} THEN <<s[1]>> \o SubstituteOnce(Tail(s), used, first_only)
    ELSE KeywordTable[Min(MarkersAt(s))].value.text
             \o SubstituteOnce(From(s, Len(Word(Min(MarkersAt(s)))) + 1),
                               IF first_only THEN used \cup MarkersAt(s) ELSE used,
                               first_only)

\* the keyword pass has just ended, on a location whose last component
\* holds the marker of a keyword whose value holds a keyword's marker
KeywordPassOnNestedValue ==
    /\ epc \in {"functions", "raised"}
    /\ stepped = <<>>
    /\ \E k, j \in 1..Len(KeywordTable) :
          /\ Contains(PathName(Path(raw)), Word(k))
          /\ Contains(KeywordTable[k].value.text, Word(j))

\* C11: the keyword pass never expands its own output: where the value
\* substituted for a keyword holds the marker of another keyword, the pass
\* returns the location with the markers of the raw location substituted
\* (every one, or the first of each keyword) and the marker inside the
\* substituted value left as it is
C11_ValueNotExpanded ==
    KeywordPassOnNestedValue =>
        /\ epc = "functions"
        /\ location \in {Path(SubstituteOnce(raw, {}, FALSE)),
                         Path(SubstituteOnce(raw, {}, TRUE))}

\* the latest iteration of the function pass
StepRan == stepped # <<>>
StepBefore == PathName(stepped[Len(stepped)])
StepMatch == matches[Len(stepped)]
StepFunc == Search(StepMatch).func
StepRaised == epc = "raised"

\* str.endswith for ENDS_WITH, str.startswith for BEGINS_WITH
Satisfies(func, entry, arg) ==
    IF func = <<"ENDS_WITH">> THEN EndsWith(entry, arg) ELSE StartsWith(entry, arg)

\* the entries of the listing of dir that satisfy func's predicate
Matching(dir, func, arg) ==
    IF dir \in DOMAIN fs
    THEN SelectSeq(fs[dir], LAMBDA e : Satisfies(func, e, arg))
    ELSE <<>>

\* the latest iteration handled a known function token, the occurrence it
\* processed is its own match, the directory before it exists and no entry
\* of it matches the argument
StepFoundNoEntry ==
    /\ StepRan
    /\ StepFunc \in FunctionNames
    /\ Search(StepBefore).found
    /\ Search(StepBefore).text = StepMatch
    /\ SubSeq(StepBefore, 1, Search(StepBefore).start - 1) \in DOMAIN fs
    /\ Matching(SubSeq(StepBefore, 1, Search(StepBefore).start - 1),
                StepFunc, Search(StepBefore).arg) = <<>>

\* C2: a known function token whose argument matches no entry of the listed
\* directory raises no error and leaves the location as it was before the
\* token was processed, the token and the text around it in place.
C2_NoMatchLeavesLocation ==
    StepFoundNoEntry => (~StepRaised /\ location = stepped[Len(stepped)])

\* the latest iteration's own occurrence: the first occurrence of its match
\* text in the name, the directory named by the text before it, and the
\* entries of that directory its own predicate and argument select
OwnStart == Find(StepBefore, StepMatch)
OwnDir == SubSeq(StepBefore, 1, OwnStart - 1)
OwnEntries == Matching(OwnDir, StepFunc, Search(StepMatch).arg)

\* the match texts of unknown functions
UnknownMatches ==
    {matches[j] : j \in {i \in 1..Len(matches) : Search(matches[i]).func \notin FunctionNames}}

\* C9: the function pass handles the occurrences left to right; an
\* occurrence of an unknown function is never replaced, and an occurrence of
\* a known function is resolved with its own predicate and argument against
\* the directory named by the text before it (here: whenever that directory
\* exists and holds a matching entry).
C9_EachOccurrenceOwnResolver ==
    StepRan =>
        /\ StepFunc \notin FunctionNames => location = stepped[Len(stepped)]
        /\ (StepFunc \in FunctionNames /\ OwnStart # 0 /\ OwnEntries # <<>>)
              => /\ ~StepRaised
                 /\ location \in
                      {Path(Replace(StepBefore, StepMatch, OwnEntries[1])),
                       Path(ReplaceFirstOnly(StepBefore, StepMatch, OwnEntries[1]))}
                 /\ \A u \in UnknownMatches :
                       Contains(StepBefore, u) => Contains(PathName(location), u)

RECURSIVE SplitOn(_, _)
\* the texts between the occurrences of tok in s
SplitOn(s, tok) ==
    LET hits == {i \in 1..Len(s) : OccursAt(s, tok, i)}
    IN  IF hits = {} THEN <<s>>
        ELSE <<SubSeq(s, 1, Min(hits) - 1)>> \o SplitOn(From(s, Min(hits) + Len(tok)), tok)

\* the latest iteration ran the replace step on a token text that occurred
\* at least twice in the name: the resolver found an entry for the first
\* occurrence of a token of the function being handled
StepReplacedDuplicate ==
    /\ StepRan
    /\ ~StepRaised
    /\ StepFunc \in FunctionNames
    /\ Search(StepBefore).found
    /\ Len(SplitOn(StepBefore, Search(StepBefore).text)) >= 3
    /\ Matching(SubSeq(StepBefore, 1, Search(StepBefore).start - 1),
                StepFunc, Search(StepBefore).arg) # <<>>

StepEntry ==
    Matching(SubSeq(StepBefore, 1, Search(StepBefore).start - 1),
             StepFunc, Search(StepBefore).arg)[1]

\* C10: with two textually identical function tokens in the
\* location, one run of the replace step changes only the first of them, and
\* the second is still there as token text after the step.
C10_OnlyFirstReplaced ==
    StepReplacedDuplicate =>
        location = Path(ReplaceFirstOnly(StepBefore, Search(StepBefore).text, StepEntry))

(***************************************************************************)
(* Loading a manifest into a Config and serialising it back                *)
(***************************************************************************)
\* the locations the manifests declare
ConfigLocations ==
    { <<"/", "h", "/", "d">>,
      <<"d", "/", "/", "a", "/">>,
      <<"$", "HOME", "/", "d">>,
      <<"$", "HOME">>,
      <<"d">> \o Token("ENDS_WITH", <<"x">>) }

\* the values of an entry's "entries" field
EntriesTrees == {Null, List(<<>>), List(<<Str(<<"f">>)>>)}

\* a strip spec of one file
FileStrip ==
    Dict(("groups" :> List(<<Str(<<"G">>)>>)) @@ ("keys" :> List(<<Str(<<"T">>)>>)))

\* the values of an entry's "strip" field, when the field is there
StripTrees == {Null, Dict(<<>>), Dict("f" :> FileStrip), Dict("f" :> Null)}

EntryTrees ==
    {Dict(("location" :> Str(l)) @@ ("entries" :> e)) :
        l \in ConfigLocations, e \in EntriesTrees}
    \cup
    {Dict(("location" :> Str(l)) @@ ("entries" :> e) @@ ("strip" :> s)) :
        l \in ConfigLocations, e \in EntriesTrees, s \in StripTrees}

\* the entries of the export section
ExportTrees ==
    {Dict(("location" :> Str(l)) @@ ("entries" :> List(<<Str(<<"f">>)>>))) :
        l \in {<<"/", "h", "/", "d">>, <<"d", "/", "/", "a", "/">>}}

\* the manifests: a save section with one entry, and an export section or
\* none
Manifests ==
    {Dict("save" :> Dict("a" :> x)) : x \in EntryTrees}
    \cup
    {Dict(("save" :> Dict("a" :> x)) @@ ("export" :> Dict("b" :> y))) :
        x \in EntryTrees, y \in ExportTrees}

\* data = yaml.safe_load(config_file.read_text())
InitConfig ==
    /\ ExpandIdle /\ StripIdle /\ SaveIdle
    /\ fs \in FileSystems
    /\ home \in HomeDirs
    /\ data \in Manifests
    /\ tree = data
    /\ sections = <<>>
    /\ dumped = <<>>
    /\ cpc = "tree"
    /\ cerr = "none"

\* Config.__init__ on the tree at hand
LoadConfig ==
    /\ cpc = "tree"
    /\ \E r \in {Config_init(fs, tree)} :
           IF r.err # "none"
           THEN /\ cpc' = "raised"
                /\ cerr' = r.err
                /\ UNCHANGED sections
           ELSE /\ cpc' = "loaded"
                /\ sections' = r.value
                /\ UNCHANGED cerr
    /\ UNCHANGED <<data, tree, dumped, fs, home, expandVars, stripVars, saveVars>>

\* Config.to_dict; the tree it returns is the one parsed next
ToDict ==
    /\ cpc = "loaded"
    /\ tree' = Config_to_dict(sections)
    /\ dumped' = Append(dumped, tree')
    /\ cpc' = IF Len(dumped) + 1 < MaxDumps THEN "tree" ELSE "done"
    /\ UNCHANGED <<data, sections, cerr, fs, home, expandVars, stripVars, saveVars>>

NextConfig == LoadConfig \/ ToDict

SpecConfig == InitConfig /\ [][NextConfig]_vars

(***************************************************************************)
(* Claims about the manifest                                               *)
(***************************************************************************)
\* the (section, entry) names of a manifest
EntryNames(d) == {<<s, e>> : s \in DOMAIN d.v, e \in UNION {DOMAIN d.v[x].v : x \in DOMAIN d.v}}

EntriesOf(d) == {p \in EntryNames(d) : p[2] \in DOMAIN d.v[p[1]].v}

EntryAt(d, p) == d.v[p[1]].v[p[2]].v

\* a list of strs
IsStrList(x) == x.t = "list" /\ \A i \in DOMAIN x.v : x.v[i].t = "str"

\* a strip field as the manifest format has it: a mapping from file names to
\* {groups: [...], keys: [...]}
IsStripMap(x) ==
    /\ x.t = "dict"
    /\ \A f \in DOMAIN x.v :
          /\ x.v[f].t = "dict"
          /\ DOMAIN x.v[f].v = {"groups", "keys"}
          /\ IsStrList(x.v[f].v["groups"])
          /\ IsStrList(x.v[f].v["keys"])

\* a manifest of the interchange format
WellFormed(d) ==
    \A p \in EntriesOf(d) :
        /\ EntryAt(d, p)["location"].t = "str"
        /\ IsStrList(EntryAt(d, p)["entries"])
        /\ "strip" \in DOMAIN EntryAt(d, p) => IsStripMap(EntryAt(d, p)["strip"])

\* every location of the manifest is free of keyword markers and function
\* tokens
PlainLocations(d) ==
    \A p \in EntriesOf(d) :
        /\ ~HasKeyword(EntryAt(d, p)["location"].v)
        /\ ~Search(EntryAt(d, p)["location"].v).found

\* C3: for a well-formed manifest (here: one whose locations hold no token),
\* to_dict's tree is one the parser accepts, parsing it and serialising
\* again gives the same tree, and each location in it is the string value
\* the manifest declared.
C3_RoundTrip ==
    (WellFormed(data) /\ PlainLocations(data) /\ cpc \in {"done", "raised"})
        => /\ cpc = "done"
           /\ dumped[2] = dumped[1]
           /\ \A p \in EntriesOf(data) :
                 EntryAt(dumped[1], p)["location"] = EntryAt(data, p)["location"]

\* a manifest that is well formed but for null entries or strip fields
NullFieldsOnly(d) ==
    \A p \in EntriesOf(d) :
        /\ EntryAt(d, p)["location"].t = "str"
        /\ EntryAt(d, p)["entries"] = Null \/ IsStrList(EntryAt(d, p)["entries"])
        /\ "strip" \in DOMAIN EntryAt(d, p)
              => EntryAt(d, p)["strip"] = Null \/ IsStripMap(EntryAt(d, p)["strip"])

\* C7: loading a manifest with a null entries or strip field (here: one
\* whose locations hold no token) does not raise, and the loaded entry has
\* an empty entries list, respectively an empty strips mapping.
C7_NullFieldsLoad ==
    (NullFieldsOnly(data) /\ PlainLocations(data) /\ dumped = <<>> /\ cpc \in {"loaded", "raised"})
        => /\ cpc = "loaded"
           /\ \A p \in EntriesOf(data) :
                 /\ EntryAt(data, p)["entries"] = Null
                       => sections[p[1]][p[2]].entries = List(<<>>)
                 /\ ("strip" \in DOMAIN EntryAt(data, p) /\ EntryAt(data, p)["strip"] = Null)
                       => DOMAIN sections[p[1]][p[2]].strips = {}

(***************************************************************************)
(* Stripping a file                                                        *)
(***************************************************************************)
\* the lines the files are made of: two section headers, a line that holds
\* a header but does not start with it, two keys of which one's name ends
\* with the other's, an unrelated key, the placeholder's text, an empty line
LineChoices ==
    { <<"[", "G", "]">>, <<"[", "O", "]">>, <<"x", "[", "G", "]">>,
      <<"T", "=", "1">>, <<"I", "T", "=", "1">>, <<"S", "=", "1">>,
      placeholder, <<>> }

RECURSIVE LineSeqs(_)
\* the sequences of exactly n lines
LineSeqs(n) ==
    IF n = 0 THEN {<<>>}
    ELSE {<<l>> \o s : l \in LineChoices, s \in LineSeqs(n - 1)}

Files == UNION {{JoinLines(s) : s \in LineSeqs(n)} : n \in 0..MaxLines}

\* the strip specs: a dict with "groups", "keys", both or neither
StripSpecs ==
    {<<>>}
    \cup {"groups" :> g : g \in {<< <<"G">> >>, << <<"G">>, <<"O">> >>}}
    \cup {"keys" :> k : k \in {<< <<"T">> >>}}
    \cup {("groups" :> g) @@ ("keys" :> k) :
            g \in {<< <<"G">> >>, << <<"G">>, <<"O">> >>}, k \in {<< <<"T">> >>}}

InitStrip ==
    /\ ExpandIdle /\ ConfigIdle /\ SaveIdle
    /\ fs = <<>>
    /\ home = <<"/", "h">>
    /\ file_text \in Files
    /\ strip_args \in StripSpecs
    /\ given = <<>>
    /\ after_groups = <<>>
    /\ returned = <<>>
    /\ spc = "ready"
    /\ serr = "none"

\* strip_content(file_path, strip_args): read, strip_groups, strip_keys,
\* filter, join and write; nothing is written when it raises
StripContent ==
    /\ spc = "ready"
    /\ Len(returned) < MaxRuns
    /\ given' = Append(given, SplitLines(file_text))
    /\ \E g \in {strip_groups(SplitLines(file_text), Get(strip_args, "groups"))} :
       \E r \in {WithoutPlaceholder(KeysAfterGroups(g, Get(strip_args, "keys")))} :
          /\ after_groups' = Append(after_groups, g)
          /\ IF r.err # "none"
             THEN /\ spc' = "raised"
                  /\ serr' = r.err
                  /\ UNCHANGED <<file_text, returned>>
             ELSE /\ returned' = Append(returned, r.value)
                  /\ file_text' = JoinLines(r.value)
                  /\ UNCHANGED <<spc, serr>>
    /\ UNCHANGED <<strip_args, fs, home, expandVars, configVars, saveVars>>

NextStrip == StripContent

SpecStrip == InitStrip /\ [][NextStrip]_vars

(***************************************************************************)
(* Claims on stripping                                                     *)
(***************************************************************************)
\* the groups and keys of the strip spec
SpecGroups == Get(strip_args, "groups")
SpecKeys == Get(strip_args, "keys")

\* the lines the latest run read, and the lines of the latest run that
\* returned
LastGiven == given[Len(given)]
LastReturned == returned[Len(returned)]

\* the line holds key= for a key of the spec
HoldsKey(line) == \E n \in 1..Len(SpecKeys) : Contains(line, KeyAssign(SpecKeys[n]))

\* the line holds [group] for a group of the spec
HoldsGroup(line) == \E n \in 1..Len(SpecGroups) : Contains(line, GroupHeader(SpecGroups[n]))

\* position p of lines lies in a group to remove: at or after a line that
\* holds [group], with no line that starts a section in between
InRemovedGroup(lines, p) ==
    \E h \in 1..p :
        /\ HoldsGroup(lines[h])
        /\ \A q \in (h + 1)..p : ~IsSectionStart(lines[q])

\* C4: stripping is idempotent: strip applied, with the same spec, to the
\* lines a strip returned returns those lines unchanged
C4_StripIdempotent ==
    returned # <<>> =>
        StripLines(LastReturned, SpecGroups, SpecKeys) = Ok(LastReturned)

\* C4 witness: a strip that took out lines and kept others has returned
C4_Witness ==
    /\ returned # <<>>
    /\ SpecGroups # <<>> /\ SpecKeys # <<>>
    /\ \E p \in 1..Len(given[1]) : HoldsKey(given[1][p]) /\ ~InRemovedGroup(given[1], p)
    /\ \E p \in 1..Len(given[1]) : HoldsGroup(given[1][p])
    /\ returned[1] # <<>>

\* C5: for every group of the spec and every line that holds [group], strip
\* replaces that line and every line after it up to, not including, the next
\* line that starts a section (or the end of the file), and no other line:
\* the boundary line stays, whatever its name
C5_GroupsRemoved ==
    given # <<>> =>
        /\ after_groups[Len(given)].err = "none"
        /\ \A p \in 1..Len(LastGiven) :
              after_groups[Len(given)].value[p] =
                  IF InRemovedGroup(LastGiven, p) THEN placeholder ELSE LastGiven[p]
        /\ Len(returned) = Len(given)
        /\ \A i \in 1..Len(LastReturned) : ~HoldsGroup(LastReturned[i])

\* C6: every line that holds key= for a key of the spec, duplicates and
\* lines whose own key only ends with the key included, is absent from what
\* strip returns, and nothing stands in its place: the output is shorter by
\* at least those lines and holds no more empty lines than the input
C6_KeyLinesRemoved ==
    returned # <<>> =>
        /\ \A i \in 1..Len(LastReturned) : ~HoldsKey(LastReturned[i])
        /\ Len(LastReturned)
             + Cardinality({p \in 1..Len(given[Len(returned)]) :
                               HoldsKey(given[Len(returned)][p])})
             <= Len(given[Len(returned)])
        /\ Cardinality({i \in 1..Len(LastReturned) : LastReturned[i] = <<>>})
             <= Cardinality({p \in 1..Len(given[Len(returned)]) :
                                given[Len(returned)][p] = <<>>})

\* C6 witness: strip returned on a file with the key's line twice, a line
\* whose key ends with the key, and an unrelated line that stays
C6_Witness ==
    /\ Len(returned) = 1
    /\ SpecKeys = << <<"T">> >>
    /\ \E i, j \in 1..Len(given[1]) :
          i < j /\ given[1][i] = <<"T", "=", "1">> /\ given[1][j] = <<"T", "=", "1">>
    /\ \E m \in 1..Len(given[1]) : given[1][m] = <<"I", "T", "=", "1">>
    /\ returned[1] = << <<"S", "=", "1">> >>

RECURSIVE UnrelatedFrom(_, _)
\* the lines of lines from position p on that neither lie in a group to
\* remove nor hold key= for a key of the spec, in their order
UnrelatedFrom(lines, p) ==
    IF p > Len(lines) THEN <<>>
    ELSE IF InRemovedGroup(lines, p) \/ HoldsKey(lines[p]) THEN UnrelatedFrom(lines, p + 1)
    ELSE <<lines[p]>> \o UnrelatedFrom(lines, p + 1)

\* C12: stripping leaves unrelated content intact: every line read that
\* neither lies in a removed group nor holds key= for a key of the spec is
\* in what strip returns, whatever its text, in the original order (and,
\* with C5 and C6, nothing else is)
C12_UnrelatedKept ==
    returned # <<>> => LastReturned = UnrelatedFrom(given[Len(returned)], 1)

\* C13: for every sequence of lines and every strip spec, strip runs to
\* completion and returns a result: a run that has read the file's lines
\* has returned lines, and has not raised
C13_StripReturns ==
    /\ spc # "raised"
    /\ Len(returned) = Len(given)

(***************************************************************************)
(* Saving a profile                                                        *)
(***************************************************************************)
\* the sources an entry may name
SourceChoices ==
    { Missing, File(TRUE), File(FALSE),
      Dir(TRUE, <<File(TRUE)>>),
      Dir(FALSE, <<File(TRUE)>>),
      Dir(TRUE, <<File(FALSE), File(TRUE)>>),
      Dir(TRUE, <<Dir(TRUE, <<File(FALSE)>>), File(TRUE)>>) }

\* an entry of a section: its source, whether the section's strip names it,
\* and whether strip_content raises on the copied file
SaveEntries ==
    {[source |-> s, in_strip |-> FALSE, strip_raises |-> FALSE] : s \in SourceChoices}
    \cup {[source |-> File(TRUE), in_strip |-> TRUE, strip_raises |-> r] : r \in BOOLEAN}
    \cup {[source |-> Dir(TRUE, <<File(TRUE)>>), in_strip |-> TRUE, strip_raises |-> FALSE]}

RECURSIVE WorkLists(_)
\* the lists of exactly n entries
WorkLists(n) ==
    IF n = 0 THEN {<<>>}
    ELSE {<<e>> \o w : e \in SaveEntries, w \in WorkLists(n - 1)}

InitSave ==
    /\ ExpandIdle /\ ConfigIdle /\ StripIdle
    /\ fs = <<>>
    /\ home = <<"/", "h">>
    /\ config_read \in BOOLEAN
    /\ work \in UNION {WorkLists(n) : n \in 0..MaxWork}
    /\ (~config_read => work = <<>>)
    /\ vidx = 0
    /\ copied = {}
    /\ stripped = {}
    /\ failed = FALSE
    /\ after_failure = {}
    /\ manifest_copied = FALSE
    /\ reported = FALSE
    /\ vpc = "ready"

\* save_profile up to the loop: read_konsave_config(CONFIG_FILE)["save"]
\* raises TypeError when the config is None, and exception_handler ends the
\* call
SaveBegin ==
    /\ vpc = "ready"
    /\ IF config_read
       THEN /\ vpc' = "entries"
            /\ vidx' = 1
            /\ UNCHANGED failed
       ELSE /\ vpc' = "aborted"
            /\ failed' = TRUE
            /\ UNCHANGED vidx
    /\ UNCHANGED <<config_read, work, copied, stripped, after_failure,
                   manifest_copied, reported>>
    /\ UNCHANGED <<fs, home, expandVars, configVars, stripVars>>

\* the loop body for a source that does not exist
SaveSkip ==
    /\ vpc = "entries"
    /\ vidx <= Len(work)
    /\ work[vidx].source.kind = "missing"
    /\ vidx' = vidx + 1
    /\ UNCHANGED <<config_read, work, copied, stripped, failed, after_failure,
                   manifest_copied, reported, vpc>>
    /\ UNCHANGED <<fs, home, expandVars, configVars, stripVars>>

\* the loop body for a source that exists: copy or shutil.copy, then
\* strip_content when the strip names the entry; an exception that reaches
\* save_profile ends the call
SaveEntry ==
    /\ vpc = "entries"
    /\ vidx <= Len(work)
    /\ work[vidx].source.kind # "missing"
    /\ \E c \in {CopyEntry(work[vidx], <<vidx>>, Done(copied, failed, after_failure))} :
          /\ copied' = c.st.copied
          /\ IF c.raised
             THEN /\ failed' = TRUE
                  /\ vpc' = "aborted"
                  /\ after_failure' = c.st.after
                  /\ UNCHANGED <<stripped, vidx>>
             ELSE IF ~work[vidx].in_strip
             THEN /\ failed' = c.st.failed
                  /\ after_failure' = c.st.after
                  /\ vidx' = vidx + 1
                  /\ UNCHANGED <<stripped, vpc>>
             ELSE IF StripRaises(work[vidx])
             THEN /\ failed' = TRUE
                  /\ vpc' = "aborted"
                  /\ after_failure' = c.st.after
                  /\ UNCHANGED <<stripped, vidx>>
             ELSE /\ failed' = c.st.failed
                  /\ stripped' = stripped \cup {<<vidx>>}
                  /\ after_failure' =
                        IF c.st.failed
                        THEN c.st.after \cup {[op |-> "strip", path |-> <<vidx>>]}
                        ELSE c.st.after
                  /\ vidx' = vidx + 1
                  /\ UNCHANGED vpc
    /\ UNCHANGED <<config_read, work, manifest_copied, reported>>
    /\ UNCHANGED <<fs, home, expandVars, configVars, stripVars>>

\* after the loop: shutil.copy(CONFIG_FILE, profile_dir), which returns or
\* raises, then log("Profile saved successfully!")
SaveFinish ==
    /\ vpc = "entries"
    /\ vidx > Len(work)
    /\ \E ok \in BOOLEAN :
          IF ok
          THEN /\ manifest_copied' = TRUE
               /\ reported' = TRUE
               /\ vpc' = "done"
               /\ UNCHANGED failed
          ELSE /\ failed' = TRUE
               /\ vpc' = "aborted"
               /\ UNCHANGED <<manifest_copied, reported>>
    /\ UNCHANGED <<config_read, work, vidx, copied, stripped, after_failure>>
    /\ UNCHANGED <<fs, home, expandVars, configVars, stripVars>>

NextSave == SaveBegin \/ SaveSkip \/ SaveEntry \/ SaveFinish

SpecSave == InitSave /\ [][NextSave]_vars

(***************************************************************************)
(* Claims on saving                                                        *)
(***************************************************************************)
\* C8: within one save invocation, once a step has failed (a copy at any
\* depth, a strip, the manifest's copy), nothing is copied or stripped
\* afterwards, the manifest is not copied into the profile, and the
\* invocation does not report that the profile was saved
C8_FailureStopsSave ==
    failed => /\ after_failure = {}
              /\ ~manifest_copied
              /\ ~reported

=============================================================================
